---- MODULE Spec2Model ----
(***************************************************************************)
(* Free-time computation and common-availability engine of the MeetUp      *)
(* timetable service: TimeUtils.calculateFreeTimeSlots,                    *)
(* TimeUtils.findCommonFreeSlots / intersectFreeSlots, the Timetable model *)
(* queries and the TimetableController requests built on them.             *)
(*                                                                         *)
(* Time is an integer number of minutes since local midnight of day 0      *)
(* (the spec fixes minute resolution and one reference zone, so a JS Date  *)
(* is its minute count and a calendar date is t \div 1440).                *)
(***************************************************************************)
EXTENDS Integers, Sequences, FiniteSets, TLC

VARIABLES
  pc,                \* "start" before the operation runs, "done" after it
  timetableEntries,  \* calculateFreeTimeSlots: the caller's entry array
  startDate,         \* calculateFreeTimeSlots: range start
  endDate,           \* calculateFreeTimeSlots: range end
  workingHours,      \* calculateFreeTimeSlots: {start, end} in hours
  freeSlots,         \* calculateFreeTimeSlots: returned array
  occupied,          \* occupied intervals read by the sweep, per iterated date
  userFreeSlots,     \* findCommonFreeSlots: one slot array per participant
  commonSlots,       \* findCommonFreeSlots: returned array
  db,                \* Timetable collection: stored documents, insertion order
  nextId,            \* the _id the next stored document gets
  received,          \* the number of requests the service has taken
  date,              \* occursOnDate: the date asked about
  occurs,            \* occursOnDate: how the call ended
  rankArgs,          \* generateMeetingSuggestions: participants and limits
  suggestions,       \* generateMeetingSuggestions: returned array
  handlers           \* concurrent createEntry handlers: position and locals

vars == <<pc, timetableEntries, startDate, endDate, workingHours, freeSlots,
          occupied, userFreeSlots, commonSlots, db, nextId, received,
          date, occurs, rankArgs, suggestions, handlers>>

(***************************************************************************)
(* Dates                                                                   *)
(***************************************************************************)

\* minutes in dayInMs = 24 * 60 * 60 * 1000
DayMin == 1440

\* the calendar date (day number) of an instant
DateOf(t) == t \div DayMin

\* minutes since local midnight of an instant
TimeOfDay(t) == t % DayMin

\* the instant at time-of-day tod on calendar date d
At(d, tod) == d * DayMin + tod

\* Date.prototype.getDay (0 = Sunday); day 0 of the calendar is a Monday
getDay(t) == (DateOf(t) + 1) % 7

\* Date.prototype.setHours(h, 0, 0, 0)
setHours(t, h) == DateOf(t) * DayMin + h * 60

Max(a, b) == IF a >= b THEN a ELSE b

Min(a, b) == IF a <= b THEN a ELSE b

\* the sequence in reverse order
Reverse(seq) == [i \in 1..Len(seq) |-> seq[Len(seq) + 1 - i]]

(***************************************************************************)
(* TimeUtils.calculateFreeTimeSlots                                        *)
(***************************************************************************)

\* the minimum slot length hard-coded in the sweep and in the intersection
MinSlotMinutes == 30

\* Array.prototype.sort is stable: insert e after the elements that do not
\* compare greater than it
RECURSIVE InsertByStart(_, _)
InsertByStart(sorted, e) ==
  IF sorted = <<>> THEN <<e>>
  ELSE IF sorted[Len(sorted)].startTime - e.startTime <= 0
       THEN Append(sorted, e)
       ELSE Append(InsertByStart(SubSeq(sorted, 1, Len(sorted) - 1), e),
                   sorted[Len(sorted)])

\* timetableEntries.sort((a, b) => a.startTime - b.startTime)
RECURSIVE SortByStart(_)
SortByStart(entries) ==
  IF entries = <<>> THEN <<>>
  ELSE InsertByStart(SortByStart(SubSeq(entries, 1, Len(entries) - 1)),
                     entries[Len(entries)])

\* sortedEntries.filter(entry => entry.dayOfWeek === dayOfWeek)
DayEntries(sortedEntries, dayOfWeek) ==
  SelectSeq(sortedEntries, LAMBDA entry : entry.dayOfWeek = dayOfWeek)

\* the IFreeTimeSlot pushed for the gap [currentTime, slotEnd)
FreeSlot(currentTime, slotEnd, dayOfWeek) ==
  [startTime |-> currentTime, endTime |-> slotEnd,
   duration |-> slotEnd - currentTime, dayOfWeek |-> dayOfWeek,
   isAvailable |-> TRUE]

\* slotEnd of iteration i (1-based; i = Len + 1 is the last slot of the day)
SlotEnd(dayEntries, i, endOfDay) ==
  IF i = Len(dayEntries) + 1 THEN endOfDay ELSE dayEntries[i].startTime

\* GapSlots without the 30 minute test: every non-empty gap is pushed
GapSlotsNoMinimum(currentTime, slotEnd, dayOfWeek) ==
  IF currentTime < slotEnd
  THEN <<FreeSlot(currentTime, slotEnd, dayOfWeek)>>
  ELSE <<>>

\* the slots pushed by one iteration: the gap must be non-empty and at least
\* 30 minutes long
GapSlots(currentTime, slotEnd, dayOfWeek) ==
  IF currentTime < slotEnd /\ slotEnd - currentTime >= MinSlotMinutes
  THEN <<FreeSlot(currentTime, slotEnd, dayOfWeek)>>
  ELSE <<>>

\* "Move to the end of current class"
NextCurrentTime(dayEntries, i, currentTime) ==
  IF i < Len(dayEntries) + 1 THEN dayEntries[i].endTime ELSE currentTime

\* the inner loop, for (let i = 0; i <= dayEntries.length; i++), from
\* iteration i on
RECURSIVE SweepDay(_, _, _, _, _)
SweepDay(dayEntries, i, currentTime, endOfDay, dayOfWeek) ==
  IF i > Len(dayEntries) + 1 THEN <<>>
  ELSE GapSlots(currentTime, SlotEnd(dayEntries, i, endOfDay), dayOfWeek)
       \o SweepDay(dayEntries, i + 1,
                   NextCurrentTime(dayEntries, i, currentTime),
                   endOfDay, dayOfWeek)

\* the body of the outer loop for one currentDate
DaySlots(sortedEntries, currentDate, wh) ==
  SweepDay(DayEntries(sortedEntries, getDay(currentDate)), 1,
           setHours(currentDate, wh.start), setHours(currentDate, wh.end),
           getDay(currentDate))

\* the outer loop: currentDate from startDate while currentDate <= endDate,
\* in steps of 24 hours
RECURSIVE DaysLoop(_, _, _, _)
DaysLoop(sortedEntries, currentDate, rangeEnd, wh) ==
  IF currentDate > rangeEnd THEN <<>>
  ELSE DaySlots(sortedEntries, currentDate, wh)
       \o DaysLoop(sortedEntries, currentDate + DayMin, rangeEnd, wh)

\* the array returned by calculateFreeTimeSlots
calculateFreeTimeSlots(entries, rangeStart, rangeEnd, wh) ==
  DaysLoop(SortByStart(entries), rangeStart, rangeEnd, wh)

\* the default parameter workingHours = { start: 8, end: 22 }
DefaultWorkingHours == [start |-> 8, end |-> 22]

\* the occupied intervals the sweep of one currentDate reads: startTime as
\* slotEnd, endTime as the next currentTime
OccupiedOn(sortedEntries, currentDate) ==
  LET dayEntries == DayEntries(sortedEntries, getDay(currentDate))
  IN [i \in 1..Len(dayEntries) |->
        [date |-> DateOf(currentDate),
         startTime |-> dayEntries[i].startTime,
         endTime |-> dayEntries[i].endTime,
         entry |-> dayEntries[i]]]

\* the occupied intervals read over the whole range
RECURSIVE OccupiedLoop(_, _, _)
OccupiedLoop(sortedEntries, currentDate, rangeEnd) ==
  IF currentDate > rangeEnd THEN <<>>
  ELSE OccupiedOn(sortedEntries, currentDate)
       \o OccupiedLoop(sortedEntries, currentDate + DayMin, rangeEnd)

(***************************************************************************)
(* TimeUtils.findCommonFreeSlots and intersectFreeSlots                    *)
(***************************************************************************)

\* OverlapStart taking the first slot's start instead of the later start
OverlapStartFirst(slot1, slot2) == slot1.startTime

\* Math.max(slot1.startTime.getTime(), slot2.startTime.getTime())
OverlapStart(slot1, slot2) == Max(slot1.startTime, slot2.startTime)

\* OverlapEnd taking the later end instead of the earlier end
OverlapEndLater(slot1, slot2) == Max(slot1.endTime, slot2.endTime)

\* Math.min(slot1.endTime.getTime(), slot2.endTime.getTime())
OverlapEnd(slot1, slot2) == Min(slot1.endTime, slot2.endTime)

\* PairIntersection without the 30 minute test
PairIntersectionNoMinimum(slot1, slot2) ==
  LET overlapStart == OverlapStart(slot1, slot2)
      overlapEnd == OverlapEnd(slot1, slot2)
  IN IF overlapStart < overlapEnd
     THEN <<[startTime |-> overlapStart, endTime |-> overlapEnd,
             duration |-> overlapEnd - overlapStart,
             dayOfWeek |-> slot1.dayOfWeek, isAvailable |-> TRUE]>>
     ELSE <<>>

\* the body of the inner loop: what the pair (slot1, slot2) pushes
PairIntersection(slot1, slot2) ==
  LET overlapStart == OverlapStart(slot1, slot2)
      overlapEnd == OverlapEnd(slot1, slot2)
  IN IF overlapStart < overlapEnd
        /\ overlapEnd - overlapStart >= MinSlotMinutes
     THEN <<[startTime |-> overlapStart, endTime |-> overlapEnd,
             duration |-> overlapEnd - overlapStart,
             dayOfWeek |-> slot1.dayOfWeek, isAvailable |-> TRUE]>>
     ELSE <<>>

\* for (const slot2 of slots2), from the j-th element on
RECURSIVE InnerLoop(_, _, _)
InnerLoop(slot1, slots2, j) ==
  IF j > Len(slots2) THEN <<>>
  ELSE PairIntersection(slot1, slots2[j]) \o InnerLoop(slot1, slots2, j + 1)

\* for (const slot1 of slots1), from the i-th element on
RECURSIVE OuterLoop(_, _, _)
OuterLoop(slots1, slots2, i) ==
  IF i > Len(slots1) THEN <<>>
  ELSE InnerLoop(slots1[i], slots2, 1) \o OuterLoop(slots1, slots2, i + 1)

\* intersectFreeSlots putting each intersection at the front of the array
intersectFreeSlotsUnshift(slots1, slots2) == Reverse(OuterLoop(slots1, slots2, 1))

\* the array returned by intersectFreeSlots
intersectFreeSlots(slots1, slots2) == OuterLoop(slots1, slots2, 1)

\* the fold loop, for (let i = 1; i < userFreeSlots.length; i++), from the
\* i-th participant (1-based) on
RECURSIVE FoldFrom(_, _, _)
FoldFrom(common, slotArrays, i) ==
  IF i > Len(slotArrays) THEN common
  ELSE FoldFrom(intersectFreeSlots(common, slotArrays[i]), slotArrays, i + 1)

\* findCommonFreeSlots without the early returns, folding from the first
\* participant on
findCommonFreeSlotsFoldAll(slotArrays) ==
  IF Len(slotArrays) = 0 THEN <<>>
  ELSE FoldFrom(slotArrays[1], slotArrays, 1)

\* the array returned by findCommonFreeSlots
findCommonFreeSlots(slotArrays) ==
  IF Len(slotArrays) = 0 THEN <<>>
  ELSE IF Len(slotArrays) = 1 THEN slotArrays[1]
  ELSE FoldFrom(slotArrays[1], slotArrays, 2)

(***************************************************************************)
(* Inputs of the gap calculator                                            *)
(***************************************************************************)

\* the last calendar date of the model
MaxDay == 8

\* the longest entry array handed to calculateFreeTimeSlots
MaxEntries == 2

\* a number the request or the document does not carry (undefined)
NoNumber == -1

\* the limits of the ranker when the caller passes none
DefaultMaxSuggestions == 5

DefaultMaxMeetingLength == 120

\* the arguments of a call that passes neither limit nor participant
DefaultRankArgs ==
  [participants |-> <<>>, maxSuggestions |-> DefaultMaxSuggestions,
   maxMeetingLength |-> DefaultMaxMeetingLength]

\* occursOnDate has not been called
NotCalled == [called |-> FALSE, threw |-> FALSE, value |-> FALSE]

\* every week, without end date
Weekly == [frequency |-> "weekly", interval |-> 1, endDate |-> NoNumber]

\* the recurringPattern of a document that has none (undefined)
NoPattern == [frequency |-> "none", interval |-> 0, endDate |-> NoNumber]

\* a commitment on date d from time-of-day s to time-of-day e whose
\* dayOfWeek is the weekday of its start
Entry(d, s, e, rec) ==
  [startTime |-> At(d, s), endTime |-> At(d, e),
   dayOfWeek |-> getDay(At(d, s)), isRecurring |-> rec,
   recurringPattern |-> IF rec THEN Weekly ELSE NoPattern]

\* times of day (start, end) of the commitments drawn on day 0
Shapes ==
  { <<540, 630>>,    \* 09:00-10:30
    <<540, 600>>,    \* 09:00-10:00, same start as the first
    <<570, 600>>,    \* 09:30-10:00, nested in the first
    <<630, 650>>,    \* 10:30-10:50, back to back with the first
    <<500, 540>>,    \* 08:20-09:00, leaves a 20 minute gap after 08:00
    <<480, 1320>>,   \* 08:00-22:00, the whole default window
    <<420, 540>>,    \* 07:00-09:00, starts before the window
    <<1260, 1380>>,  \* 21:00-23:00, ends after the window
    <<360, 420>>,    \* 06:00-07:00, before the window
    <<1350, 1400>> } \* 22:30-23:20, after the window

\* the weekly commitment Mon 09:00-10:30 of day 0 whose recurrence ends at
\* midnight of day 3
WeeklyUntilDay3 ==
  [Entry(0, 540, 630, TRUE) EXCEPT !.recurringPattern.endDate = At(3, 0)]

EntryPool ==
  { Entry(0, sh[1], sh[2], FALSE) : sh \in Shapes }
  \cup { Entry(0, 540, 630, TRUE), Entry(1, 540, 630, FALSE),
         Entry(1, 600, 720, TRUE), Entry(7, 540, 630, FALSE),
         WeeklyUntilDay3 }

RangeStarts == { At(0, 0), At(0, 720), At(1, 0), At(7, 0) }

\* the last one closes a range of four weeks from day 0
RangeEnds == { At(0, 0), At(0, 1439), At(1, 1439), At(7, 1439),
               At(MaxDay, 1439), At(27, 1439) }

WorkingHoursSet == { DefaultWorkingHours, [start |-> 9, end |-> 17] }

(***************************************************************************)
(* Specification of the gap calculator                                     *)
(***************************************************************************)

InitGap ==
  /\ pc = "start"
  /\ \E n \in 0..MaxEntries : timetableEntries \in [1..n -> EntryPool]
  /\ startDate \in RangeStarts
  /\ endDate \in RangeEnds
  /\ workingHours \in WorkingHoursSet
  /\ freeSlots = <<>>
  /\ occupied = <<>>
  /\ userFreeSlots = <<>>
  /\ commonSlots = <<>>
  /\ db = <<>>
  /\ nextId = 1
  /\ received = 0
  /\ date = 0
  /\ occurs = NotCalled
  /\ rankArgs = DefaultRankArgs
  /\ suggestions = <<>>
  /\ handlers = <<>>

\* one call of TimeUtils.calculateFreeTimeSlots; the sort is in place, so the
\* caller's array is left sorted
CalculateFreeTimeSlots ==
  /\ pc = "start"
  /\ pc' = "done"
  /\ timetableEntries' = SortByStart(timetableEntries)
  /\ freeSlots' = calculateFreeTimeSlots(timetableEntries, startDate, endDate,
                                         workingHours)
  /\ occupied' = OccupiedLoop(SortByStart(timetableEntries), startDate,
                              endDate)
  /\ UNCHANGED <<startDate, endDate, workingHours, userFreeSlots,
                 commonSlots, db, nextId, received, date, occurs,
                 rankArgs, suggestions, handlers>>

NextGap == CalculateFreeTimeSlots

SpecGap == InitGap /\ [][NextGap]_vars

(***************************************************************************)
(* Inputs and specification of the multi-party intersector                 *)
(***************************************************************************)

\* the largest number of participants handed to findCommonFreeSlots
MaxParticipants == 3

\* the longest slot array of one participant
MaxSlots == 2

\* a free slot on date d from time-of-day s to time-of-day e
Slot(d, s, e) == FreeSlot(At(d, s), At(d, e), getDay(At(d, s)))

SlotPool ==
  { Slot(0, 480, 720),   \* 08:00-12:00
    Slot(0, 600, 840),   \* 10:00-14:00
    Slot(0, 480, 500),   \* 08:00-08:20
    Slot(0, 490, 505),   \* 08:10-08:25
    Slot(0, 720, 900),   \* 12:00-15:00
    \* day 0 13:00 to day 1 10:00, carrying the weekday of day 1
    FreeSlot(At(0, 780), At(1, 600), getDay(At(1, 0))) }

\* slot a comes before slot b: by start time, then by end time
SlotBefore(a, b) ==
  \/ a.startTime < b.startTime
  \/ a.startTime = b.startTime /\ a.endTime < b.endTime

\* the arrangements of at most MaxSlots distinct pool slots in ascending
\* order
AscendingSlotSeqs ==
  { q \in UNION { [1..n -> SlotPool] : n \in 0..MaxSlots } :
      \A i \in 1..(Len(q) - 1) : SlotBefore(q[i], q[i + 1]) }

\* one participant's slot array: ascending, or the reverse of it
SlotSeqs == AscendingSlotSeqs \cup { Reverse(q) : q \in AscendingSlotSeqs }

\* the largest number of slots all participants hold together
MaxTotalSlots == 4

\* the arrays of n participants that hold at most budget slots together
RECURSIVE SlotArrays(_, _)
SlotArrays(n, budget) ==
  IF n = 0 THEN { <<>> }
  ELSE LET rest == [b \in 0..budget |-> SlotArrays(n - 1, b)]
       IN UNION { { <<q>> \o r : r \in rest[budget - Len(q)] } :
                  q \in { r \in SlotSeqs : Len(r) <= budget } }

\* the number of slots the arrays hold together
RECURSIVE TotalSlots(_)
TotalSlots(arrays) ==
  IF arrays = <<>> THEN 0 ELSE Len(Head(arrays)) + TotalSlots(Tail(arrays))

InitCommon ==
  /\ pc = "start"
  /\ \/ userFreeSlots = <<>>
     \/ \E n \in 1..MaxParticipants :
          \E others \in SlotArrays(n - 1, MaxTotalSlots), q \in SlotSeqs :
            /\ TotalSlots(others) + Len(q) <= MaxTotalSlots
            /\ userFreeSlots = Append(others, q)
  /\ commonSlots = <<>>
  /\ timetableEntries = <<>>
  /\ startDate = 0
  /\ endDate = 0
  /\ workingHours = DefaultWorkingHours
  /\ freeSlots = <<>>
  /\ occupied = <<>>
  /\ db = <<>>
  /\ nextId = 1
  /\ received = 0
  /\ date = 0
  /\ occurs = NotCalled
  /\ rankArgs = DefaultRankArgs
  /\ suggestions = <<>>
  /\ handlers = <<>>

\* one call of TimeUtils.findCommonFreeSlots
FindCommonFreeSlots ==
  /\ pc = "start"
  /\ pc' = "done"
  /\ commonSlots' = findCommonFreeSlots(userFreeSlots)
  /\ UNCHANGED <<userFreeSlots, timetableEntries, startDate, endDate,
                 workingHours, freeSlots, occupied, db, nextId, received,
                 date, occurs, rankArgs, suggestions, handlers>>

NextCommon == FindCommonFreeSlots

SpecCommon == InitCommon /\ [][NextCommon]_vars

(***************************************************************************)
(* Timetable model: validation and queries                                 *)
(***************************************************************************)

\* the x-user-id header is missing
NoUser == "none"

\* a response without data
NoData == "none"

\* recurringPatternSchema: frequency in the enum, interval at least 1
ValidPattern(pattern) ==
  /\ pattern.frequency \in {"weekly", "biweekly", "monthly"}
  /\ pattern.interval >= 1

\* document validation run by save(): the endTime validator, the dayOfWeek
\* range, recurringPattern required when isRecurring, the pattern's schema
ValidationError(doc) ==
  \/ ~(doc.endTime > doc.startTime)
  \/ doc.dayOfWeek = NoNumber
  \/ doc.dayOfWeek < 0
  \/ doc.dayOfWeek > 6
  \/ doc.isRecurring /\ doc.recurringPattern = NoPattern
  \/ doc.recurringPattern # NoPattern /\ ~ValidPattern(doc.recurringPattern)

\* the pre('save') middleware
PreSaveError(doc) ==
  \/ doc.endTime <= doc.startTime
  \/ doc.isRecurring /\ doc.recurringPattern = NoPattern

\* every order in which a query may hand back the selected rows
Arrangements(rows) ==
  { [i \in 1..Len(rows) |-> rows[p[i]]] :
      p \in { q \in [1..Len(rows) -> 1..Len(rows)] :
                \A i, j \in 1..Len(rows) : i # j => q[i] # q[j] } }

\* document a is not after document b in sort({ startTime: 1 })
StartLeq(a, b) == a.startTime <= b.startTime

\* sort({ startTime: 1 }): the arrangements ascending in startTime; MongoDB
\* leaves the order of rows with equal keys open
SortDocsByStart(docs) ==
  { s \in Arrangements(docs) :
      \A i \in 1..(Len(s) - 1) : StartLeq(s[i], s[i + 1]) }

\* document a is not after document b in sort({ dayOfWeek: 1, startTime: 1 })
DayStartLeq(a, b) ==
  \/ a.dayOfWeek < b.dayOfWeek
  \/ a.dayOfWeek = b.dayOfWeek /\ a.startTime <= b.startTime

\* sort({ dayOfWeek: 1, startTime: 1 }): the arrangements ascending in
\* (dayOfWeek, startTime); rows with equal keys come in either order
SortByDayStart(docs) ==
  { s \in Arrangements(docs) :
      \A i \in 1..(Len(s) - 1) : DayStartLeq(s[i], s[i + 1]) }

\* Timetable.findByUserAndDay: the results the query may give
findByUserAndDay(docs, userId, dayOfWeek) ==
  SortDocsByStart(SelectSeq(docs, LAMBDA d :
    d.userId = userId /\ d.dayOfWeek = dayOfWeek))

\* the query of findByUserAndDateRange: non-recurring entries that start in
\* the range, recurring entries without endDate or with endDate >= startDate
InDateRange(d, rangeStart, rangeEnd) ==
  \/ /\ ~d.isRecurring
     /\ d.startTime >= rangeStart
     /\ d.startTime <= rangeEnd
  \/ /\ d.isRecurring
     /\ \/ d.recurringPattern.endDate = NoNumber
        \/ d.recurringPattern.endDate >= rangeStart

\* Timetable.findByUserAndDateRange: the results the query may give
findByUserAndDateRange(docs, userId, rangeStart, rangeEnd) ==
  SortByDayStart(SelectSeq(docs, LAMBDA d :
    d.userId = userId /\ InDateRange(d, rangeStart, rangeEnd)))

\* weeksDiff % n === 0 for weeksDiff >= 0: the remainder is NaN for n = 0
\* and has the sign of weeksDiff otherwise
RemainderIsZero(weeksDiff, n) ==
  n # 0 /\ weeksDiff % (IF n < 0 THEN -n ELSE n) = 0

\* the switch on pattern.frequency
FrequencyMatches(pattern, weeksDiff) ==
  CASE pattern.frequency = "weekly" ->
         weeksDiff >= 0 /\ RemainderIsZero(weeksDiff, pattern.interval)
    [] pattern.frequency = "biweekly" ->
         weeksDiff >= 0 /\ RemainderIsZero(weeksDiff, 2 * pattern.interval)
    [] pattern.frequency = "monthly" ->
         weeksDiff >= 0 /\ RemainderIsZero(weeksDiff, 4 * pattern.interval)
    [] OTHER -> FALSE

\* timetableSchema.methods.occursOnDate: the boolean it returns
occursOnDate(doc, d) ==
  IF ~doc.isRecurring THEN DateOf(doc.startTime) = DateOf(d)
  ELSE IF doc.recurringPattern = NoPattern THEN FALSE
  ELSE IF doc.recurringPattern.endDate # NoNumber
          /\ d > doc.recurringPattern.endDate THEN FALSE
  ELSE IF getDay(d) # doc.dayOfWeek THEN FALSE
  ELSE FrequencyMatches(doc.recurringPattern,
                        (d - doc.startTime) \div (7 * DayMin))

(***************************************************************************)
(* Inputs and specification of occursOnDate                                *)
(***************************************************************************)

\* the last week of the dates asked about
MaxWeek == 4

Pattern(frequency, interval, until) ==
  [frequency |-> frequency, interval |-> interval, endDate |-> until]

\* the last three are malformed: interval 0, interval -1, unknown frequency
OccursPatterns ==
  { Weekly, Pattern("weekly", 2, NoNumber), Pattern("biweekly", 1, NoNumber),
    Pattern("monthly", 1, NoNumber), Pattern("weekly", 1, At(10, 0)),
    Pattern("weekly", 0, NoNumber), Pattern("weekly", -1, NoNumber),
    Pattern("daily", 1, NoNumber) }

\* documents Mon 09:00-10:30 of day 0 and Tue 10:00-12:00 of day 1
OccursDocs ==
  { [e EXCEPT !.recurringPattern = p] :
      e \in { Entry(0, 540, 630, TRUE), Entry(1, 600, 720, TRUE) },
      p \in OccursPatterns \cup {NoPattern} }
  \cup { Entry(0, 540, 630, FALSE), Entry(1, 600, 720, FALSE) }

\* Mondays and Tuesdays of weeks 0..MaxWeek at 00:00, 09:00 and 12:00
OccursDates ==
  { At(7 * w + o, tod) : w \in 0..MaxWeek, o \in {0, 1},
                         tod \in {0, 540, 720} }

InitOccurs ==
  /\ pc = "start"
  /\ \E doc \in OccursDocs : timetableEntries = <<doc>>
  /\ date \in OccursDates
  /\ occurs = NotCalled
  /\ rankArgs = DefaultRankArgs
  /\ suggestions = <<>>
  /\ startDate = 0
  /\ endDate = 0
  /\ workingHours = DefaultWorkingHours
  /\ freeSlots = <<>>
  /\ occupied = <<>>
  /\ userFreeSlots = <<>>
  /\ commonSlots = <<>>
  /\ db = <<>>
  /\ nextId = 1
  /\ received = 0
  /\ handlers = <<>>

\* one call doc.occursOnDate(date); no statement of the method throws
OccursOnDate ==
  /\ pc = "start"
  /\ pc' = "done"
  /\ occurs' = [called |-> TRUE, threw |-> FALSE,
                value |-> occursOnDate(timetableEntries[1], date)]
  /\ UNCHANGED <<timetableEntries, date, startDate, endDate, workingHours,
                 freeSlots, occupied, userFreeSlots, commonSlots, db, nextId,
                 received, rankArgs, suggestions, handlers>>

NextOccurs == OccursOnDate

SpecOccurs == InitOccurs /\ [][NextOccurs]_vars

(***************************************************************************)
(* Suggestion ranker: FreeTimeService.generateMeetingSuggestions.  The     *)
(* service is not among the sources; it is modelled from section 4.4 of    *)
(* the specification.  Confidence is kept in hundredths (0..100).          *)
(***************************************************************************)

\* the end of a suggestion that keeps the whole interval
ClippedEndNone(slot, maxMeetingLength) == slot.endTime

\* the end of the suggestion made from a common interval: the interval is
\* clipped to maxMeetingLength from its own start
ClippedEnd(slot, maxMeetingLength) ==
  Min(slot.endTime, slot.startTime + maxMeetingLength)

\* the preferred time-of-day band, 11:00 to 15:00
PreferredBand == [start |-> 660, end |-> 900]

\* DurationScore without the cap
DurationScoreUncapped(slot, maxMeetingLength) ==
  (slot.duration * 100) \div maxMeetingLength

\* the share of maxMeetingLength the raw interval fills, capped at 100
DurationScore(slot, maxMeetingLength) ==
  Min(100, (slot.duration * 100) \div maxMeetingLength)

\* 100 for an interval that starts in the preferred band, 50 otherwise
BandScore(slot) ==
  IF /\ PreferredBand.start <= TimeOfDay(slot.startTime)
     /\ TimeOfDay(slot.startTime) < PreferredBand.end
  THEN 100 ELSE 50

\* the confidence of the suggestion made from a common interval
Confidence(slot, maxMeetingLength) ==
  (7 * DurationScore(slot, maxMeetingLength) + 3 * BandScore(slot)) \div 10

\* the MeetingSuggestion made from a common interval
Suggestion(slot, participants, maxMeetingLength) ==
  [startTime |-> slot.startTime,
   endTime |-> ClippedEnd(slot, maxMeetingLength),
   duration |-> ClippedEnd(slot, maxMeetingLength) - slot.startTime,
   confidence |-> Confidence(slot, maxMeetingLength),
   participants |-> participants]

\* suggestion a is not after suggestion b in the final ordering: descending
\* confidence, ties by ascending start time
RanksBefore(a, b) ==
  \/ a.confidence > b.confidence
  \/ a.confidence = b.confidence /\ a.startTime <= b.startTime

RECURSIVE InsertByRank(_, _)
InsertByRank(sorted, e) ==
  IF sorted = <<>> THEN <<e>>
  ELSE IF RanksBefore(sorted[Len(sorted)], e)
       THEN Append(sorted, e)
       ELSE Append(InsertByRank(SubSeq(sorted, 1, Len(sorted) - 1), e),
                   sorted[Len(sorted)])

\* the final ordering of the candidates
RECURSIVE SortByRank(_)
SortByRank(candidates) ==
  IF candidates = <<>> THEN <<>>
  ELSE InsertByRank(SortByRank(SubSeq(candidates, 1, Len(candidates) - 1)),
                    candidates[Len(candidates)])

\* Truncate keeping the last maxSuggestions elements
TruncateLast(ranked, maxSuggestions) ==
  SubSeq(ranked, Max(1, Len(ranked) - maxSuggestions + 1), Len(ranked))

\* truncate to maxSuggestions
Truncate(ranked, maxSuggestions) ==
  SubSeq(ranked, 1, Min(Len(ranked), maxSuggestions))

\* rank(commonIntervals, participants, maxSuggestions, maxMeetingLength)
generateMeetingSuggestions(slots, participants, maxSuggestions, maxLength) ==
  Truncate(
    SortByRank([i \in 1..Len(slots) |->
                  Suggestion(slots[i], participants, maxLength)]),
    maxSuggestions)

(***************************************************************************)
(* Inputs and specification of the suggestion ranker                       *)
(***************************************************************************)

\* the largest maxSuggestions drawn
MaxSuggestionLimit == 3

\* the most common intervals handed to the ranker
MaxIntervals == 5

\* common intervals of day 0 and day 1, in ascending order, of 30 to 240
\* minutes; the second and the last but one get the same confidence
RankPool ==
  << Slot(0, 480, 510), Slot(0, 540, 600), Slot(0, 690, 810),
     Slot(0, 840, 1080), Slot(1, 480, 540), Slot(1, 600, 645) >>

\* the subsequence of RankPool at the positions of the set keep
RECURSIVE PickFrom(_, _)
PickFrom(k, keep) ==
  IF k > Len(RankPool) THEN <<>>
  ELSE (IF k \in keep THEN <<RankPool[k]>> ELSE <<>>) \o PickFrom(k + 1, keep)

InitRank ==
  /\ pc = "start"
  /\ \E keep \in SUBSET (1..Len(RankPool)) :
       /\ Cardinality(keep) <= MaxIntervals
       /\ commonSlots = PickFrom(1, keep)
  /\ \E n \in 1..MaxSuggestionLimit, len \in {60, 120} :
       rankArgs = [participants |-> <<"u1", "u2">>, maxSuggestions |-> n,
                   maxMeetingLength |-> len]
  /\ suggestions = <<>>
  /\ timetableEntries = <<>>
  /\ startDate = 0
  /\ endDate = 0
  /\ workingHours = DefaultWorkingHours
  /\ freeSlots = <<>>
  /\ occupied = <<>>
  /\ userFreeSlots = <<>>
  /\ db = <<>>
  /\ nextId = 1
  /\ received = 0
  /\ date = 0
  /\ occurs = NotCalled
  /\ handlers = <<>>

\* one call of generateMeetingSuggestions
GenerateMeetingSuggestions ==
  /\ pc = "start"
  /\ pc' = "done"
  /\ suggestions' = generateMeetingSuggestions(commonSlots,
                       rankArgs.participants, rankArgs.maxSuggestions,
                       rankArgs.maxMeetingLength)
  /\ UNCHANGED <<commonSlots, rankArgs, timetableEntries, startDate, endDate,
                 workingHours, freeSlots, occupied, userFreeSlots, db, nextId,
                 received, date, occurs, handlers>>

NextRank == GenerateMeetingSuggestions

SpecRank == InitRank /\ [][NextRank]_vars

(***************************************************************************)
(* TimetableController                                                     *)
(***************************************************************************)

\* the two comparisons of the overlap test of createEntry
TimesOverlap(newStartTime, newEndTime, entryStart, entryEnd) ==
  \/ newStartTime < entryEnd /\ newEndTime > entryStart
  \/ entryStart < newEndTime /\ entryEnd > newStartTime

\* the loop over existingEntries of createEntry finds a conflict
CreateConflict(existingEntries, body) ==
  \E i \in 1..Len(existingEntries) :
    TimesOverlap(body.startTime, body.endTime,
                 existingEntries[i].startTime, existingEntries[i].endTime)

\* new Timetable({...}) in createEntry: the pattern is kept only for a
\* recurring entry
NewDocument(id, userId, body) ==
  [id |-> id, userId |-> userId,
   startTime |-> body.startTime, endTime |-> body.endTime,
   dayOfWeek |-> body.dayOfWeek,
   isRecurring |-> body.isRecurring,
   recurringPattern |-> IF body.isRecurring
                        THEN body.recurringPattern ELSE NoPattern]

\* a query value given as a number, or the default when it is absent
OrDefault(value, default) == IF value = NoNumber THEN default ELSE value

\* Timetable.findOne({ _id: entryId, userId }): the position of the document
\* in the collection, 0 when there is none
FindOne(docs, entryId, userId) ==
  IF \E i \in 1..Len(docs) : docs[i].id = entryId /\ docs[i].userId = userId
  THEN CHOOSE i \in 1..Len(docs) :
         docs[i].id = entryId /\ docs[i].userId = userId
  ELSE 0

\* updateData.startTime || updateData.endTime || updateData.dayOfWeek: a
\* dayOfWeek of 0 is falsy
UpdatesTime(updateData) ==
  \/ updateData.startTime # NoNumber
  \/ updateData.endTime # NoNumber
  \/ updateData.dayOfWeek # NoNumber /\ updateData.dayOfWeek # 0

\* Timetable.find({ userId, dayOfWeek: newDayOfWeek, _id: { $ne: entryId } })
\* and the loop over its rows find a conflict
UpdateConflict(docs, userId, entryId, entry, updateData) ==
  LET newStartTime == OrDefault(updateData.startTime, entry.startTime)
      newEndTime == OrDefault(updateData.endTime, entry.endTime)
      newDayOfWeek == OrDefault(updateData.dayOfWeek, entry.dayOfWeek)
  IN \E i \in 1..Len(docs) :
       /\ docs[i].userId = userId
       /\ docs[i].dayOfWeek = newDayOfWeek
       /\ docs[i].id # entryId
       /\ TimesOverlap(newStartTime, newEndTime,
                       docs[i].startTime, docs[i].endTime)

\* Object.keys(updateData).forEach(key => entry[key] = updateData[key]):
\* every key of the body is assigned, userId included
AssignKeys(entry, updateData) ==
  [entry EXCEPT !.startTime = OrDefault(updateData.startTime, @),
                !.endTime = OrDefault(updateData.endTime, @),
                !.dayOfWeek = OrDefault(updateData.dayOfWeek, @),
                !.userId = IF updateData.userId = NoUser
                           THEN @ ELSE updateData.userId]

\* the paths of the loaded document that the assignments changed: the ones
\* save() writes
ModifiedPaths(entry, updated) ==
  (IF updated.startTime # entry.startTime THEN {"startTime"} ELSE {})
  \cup (IF updated.endTime # entry.endTime THEN {"endTime"} ELSE {})
  \cup (IF updated.dayOfWeek # entry.dayOfWeek THEN {"dayOfWeek"} ELSE {})
  \cup (IF updated.userId # entry.userId THEN {"userId"} ELSE {})

\* the stored document after save() of a loaded document: the modified paths
\* are set, the others stay as they are stored
SetModified(stored, updated, modified) ==
  [stored EXCEPT
     !.startTime = IF "startTime" \in modified THEN updated.startTime ELSE @,
     !.endTime = IF "endTime" \in modified THEN updated.endTime ELSE @,
     !.dayOfWeek = IF "dayOfWeek" \in modified THEN updated.dayOfWeek ELSE @,
     !.userId = IF "userId" \in modified THEN updated.userId ELSE @]

\* the default of minDuration in getFreeTimeSlots and findCommonFreeTime
DefaultMinDuration == 30

\* FilterByMinDuration keeping every slot
FilterByMinDurationNone(slots, minDuration) == slots

\* slots.filter(slot => slot.duration >= minDuration)
FilterByMinDuration(slots, minDuration) ==
  SelectSeq(slots, LAMBDA slot : slot.duration >= minDuration)

\* const allUserIds = [userId, ...userIds]
AllUserIds(req) == <<req.userId>> \o req.body.userIds

\* the for...of loop over allUserIds ends after its first iteration
LoopDoneEarly(allUserIds, allUserFreeSlots) ==
  Len(allUserFreeSlots) >= 1

\* the for...of loop over allUserIds has pushed one slot array per id
LoopDone(allUserIds, allUserFreeSlots) ==
  Len(allUserFreeSlots) = Len(allUserIds)

\* the data of the 200 response of findCommonFreeTime
CommonFreeTimeData(allUserFreeSlots, allUserIds, minDuration) ==
  LET filteredCommonSlots ==
        FilterByMinDuration(findCommonFreeSlots(allUserFreeSlots),
                            OrDefault(minDuration, DefaultMinDuration))
  IN [commonFreeTime |-> filteredCommonSlots,
      suggestions |->
        generateMeetingSuggestions(filteredCommonSlots, allUserIds,
                                   DefaultMaxSuggestions,
                                   DefaultMaxMeetingLength),
      participantCount |-> Len(allUserIds)]

(***************************************************************************)
(* Requests and specification of the timetable service: every handler is   *)
(* a sequence of steps, one per awaited database operation, and the steps  *)
(* of the requests in flight interleave                                    *)
(***************************************************************************)

\* the largest number of stored documents
MaxDocs == 2

\* the largest number of requests in flight
MaxHandlers == 2

\* the largest number of requests the service takes
MaxRequests == 4

Users == {"u1", "u2"}

\* a createEntry body for a commitment on date d
Body(d, s, e, dow, rec, pattern) ==
  [startTime |-> At(d, s), endTime |-> At(d, e), dayOfWeek |-> dow,
   isRecurring |-> rec, recurringPattern |-> pattern]

\* the createEntry requests: user and body
CreateRequests ==
  { <<"u1", Body(0, 500, 630, 1, FALSE, NoPattern)>>,  \* Mon 08:20-10:30
    <<"u2", Body(0, 500, 630, 1, FALSE, NoPattern)>>,
    <<"u1", Body(0, 520, 1320, 1, FALSE, NoPattern)>>, \* Mon 08:40-22:00
    <<"u2", Body(1, 600, 720, 2, TRUE, Weekly)>>,      \* Tue 10:00-12:00
    <<"u1", Body(0, 630, 630, 1, FALSE, NoPattern)>>,  \* end = start
    <<"u1", Body(1, 540, 630, 2, TRUE, NoPattern)>>,   \* no pattern
    <<"u1", Body(1, 780, 840, 1, FALSE, NoPattern)>>,  \* Tue sent as Monday
    <<NoUser, Body(0, 500, 630, 1, FALSE, NoPattern)>> }

\* a getFreeTimeSlots query; a parameter the query does not carry is NoNumber
Query(s, e, whStart, whEnd, minDuration) ==
  [startDate |-> s, endDate |-> e, workingHoursStart |-> whStart,
   workingHoursEnd |-> whEnd, minDuration |-> minDuration]

\* the getFreeTimeSlots requests: user and query
FreeTimeRequests ==
  { <<"u1", Query(At(0, 0), At(0, 1439), NoNumber, NoNumber, NoNumber)>>,
    <<"u1", Query(At(0, 0), At(0, 1439), NoNumber, NoNumber, 60)>>,
    <<"u1", Query(At(0, 0), At(0, 1439), NoNumber, NoNumber, 15)>>,
    <<"u2", Query(At(0, 0), At(0, 1439), 9, 17, NoNumber)>>,
    <<"u2", Query(At(0, 0), At(MaxDay, 1439), NoNumber, NoNumber, 60)>>,
    <<"u1", Query(At(0, 0), At(0, 0), NoNumber, NoNumber, NoNumber)>>,
    <<"u1", Query(At(1, 0), At(0, 0), NoNumber, NoNumber, NoNumber)>>,
    <<"u2", Query(NoNumber, At(0, 1439), NoNumber, NoNumber, NoNumber)>>,
    <<NoUser, Query(At(0, 0), At(0, 1439), NoNumber, NoNumber, NoNumber)>> }

\* a findCommonFreeTime body
CommonBody(userIds, s, e, minDuration) ==
  [userIds |-> userIds, startDate |-> s, endDate |-> e,
   minDuration |-> minDuration]

\* the findCommonFreeTime requests: user and body
CommonRequests ==
  { <<"u1", CommonBody(<<>>, At(0, 0), At(0, 1439), NoNumber)>>,
    <<"u1", CommonBody(<<"u2">>, At(0, 0), At(0, 1439), NoNumber)>>,
    <<"u2", CommonBody(<<"u1">>, At(0, 0), At(0, 1439), 60)>>,
    <<"u1", CommonBody(<<"u2", "u1">>, At(0, 0), At(0, 1439), 15)>>,
    <<"u1", CommonBody(<<"u2">>, At(0, 0), At(MaxDay, 1439), 60)>>,
    <<"u2", CommonBody(<<"u1">>, At(1, 0), At(0, 0), NoNumber)>>,
    <<"u2", CommonBody(<<"u1">>, At(0, 0), NoNumber, NoNumber)>>,
    <<NoUser, CommonBody(<<"u2">>, At(0, 0), At(0, 1439), NoNumber)>> }

\* an updateEntry body; a key the body does not carry is NoNumber, or
\* NoUser for userId
Update(s, e, dow, owner) ==
  [startTime |-> s, endTime |-> e, dayOfWeek |-> dow, userId |-> owner]

UpdatePool ==
  { Update(At(0, 700), NoNumber, NoNumber, NoUser),   \* start moved to 11:40
    Update(At(0, 600), At(0, 600), NoNumber, NoUser), \* start = end = 10:00
    Update(NoNumber, At(0, 530), NoNumber, NoUser),   \* end moved to 08:50
    Update(NoNumber, NoNumber, 0, NoUser),            \* moved to Sunday
    Update(NoNumber, NoNumber, NoNumber, "u2") }      \* userId set to u2

\* the updateEntry requests: user, entry id and body
UpdateRequests ==
  ({"u1"} \X (1..MaxDocs) \X UpdatePool)
  \cup { <<"u2", 1, Update(At(0, 700), NoNumber, NoNumber, NoUser)>>,
         <<NoUser, 1, Update(At(0, 700), NoNumber, NoNumber, NoUser)>> }

\* the deleteEntry requests: user and entry id
DeleteRequests ==
  ({"u1"} \X (1..MaxDocs)) \cup { <<"u2", 1>>, <<NoUser, 1>> }

\* no request in the slot
Idle == [pc |-> "idle"]

\* a handler that has not replied
NoResponse == [status |-> 0, data |-> NoData]

\* a handler at its first awaited operation: the request, the rows and the
\* document it holds, the paths it modified, the slot arrays it has pushed,
\* the error its catch block got
Started(req, pc0) ==
  [pc |-> pc0, request |-> req, entries |-> <<>>, entry |-> NoData,
   modified |-> {}, allUserFreeSlots |-> <<>>, error |-> "none",
   response |-> NoResponse]

\* res.status(status).json(...): the handler ends
Reply(handler, status, data) ==
  [handler EXCEPT !.pc = "replied",
                  !.response = [status |-> status, data |-> data]]

\* a handler that answered before its first awaited operation
Refused(req, status) == Reply(Started(req, "received"), status, NoData)

\* the catch block of a handler: 400 for a ValidationError, 500 otherwise
Caught(handler, name) ==
  Reply([handler EXCEPT !.error = name],
        IF name = "ValidationError" THEN 400 ELSE 500, NoData)

\* the service with n handler slots, before its first request
InitService(n) ==
  /\ pc = "idle"
  /\ db = <<>>
  /\ nextId = 1
  /\ handlers = [h \in 1..n |-> Idle]
  /\ received = 0
  /\ date = 0
  /\ occurs = NotCalled
  /\ rankArgs = DefaultRankArgs
  /\ suggestions = <<>>
  /\ timetableEntries = <<>>
  /\ startDate = 0
  /\ endDate = 0
  /\ workingHours = DefaultWorkingHours
  /\ freeSlots = <<>>
  /\ occupied = <<>>
  /\ userFreeSlots = <<>>
  /\ commonSlots = <<>>

\* up to MaxHandlers requests in flight
Init == InitService(MaxHandlers)

\* one request at a time: a request is taken when the one before it has
\* been answered
InitSeq == InitService(1)

engineVars == <<pc, timetableEntries, startDate, endDate,
                workingHours, freeSlots, occupied, userFreeSlots,
                commonSlots, date, occurs, rankArgs, suggestions>>

\* the slot a new request takes: the first one without a request, while the
\* service takes requests
Accepts(h) ==
  /\ received < MaxRequests
  /\ handlers[h].pc = "idle"
  /\ \A g \in 1..(h - 1) : handlers[g].pc # "idle"

\* handler h is at the awaited operation pc0 of operation op
Awaits(h, op, pc0) ==
  /\ handlers[h].pc = pc0
  /\ handlers[h].request.op = op

\* the createEntry requests that have not replied
CreatesInFlight ==
  Cardinality({ h \in DOMAIN handlers :
                  /\ handlers[h].pc \in {"find", "save"}
                  /\ handlers[h].request.op = "createEntry" })

\* POST /timetable: TimetableController.createEntry up to its query
CreateEntry ==
  \E h \in DOMAIN handlers, r \in CreateRequests :
    LET req == [op |-> "createEntry", userId |-> r[1], body |-> r[2]]
    IN /\ Accepts(h)
       /\ nextId + CreatesInFlight <= MaxDocs
       /\ handlers' = [handlers EXCEPT ![h] =
            IF r[1] = NoUser THEN Refused(req, 401)
            ELSE Started(req, "find")]
       /\ received' = received + 1
       /\ UNCHANGED <<db, nextId>>
       /\ UNCHANGED engineVars

\* createEntry: existingEntries = await Timetable.findByUserAndDay(...), the
\* overlap loop, new Timetable(...) and the call of save()
CreateEntryFind ==
  \E h \in DOMAIN handlers :
    /\ Awaits(h, "createEntry", "find")
    /\ \E existingEntries \in
            findByUserAndDay(db, handlers[h].request.userId,
                             handlers[h].request.body.dayOfWeek) :
         handlers' = [handlers EXCEPT ![h] =
           IF CreateConflict(existingEntries, handlers[h].request.body)
           THEN Reply(@, 409, NoData)
           ELSE [@ EXCEPT !.pc = "save"]]
    /\ UNCHANGED <<db, nextId>>
    /\ UNCHANGED received
    /\ UNCHANGED engineVars

\* createEntry: await entry.save() validates, runs the pre-save middleware
\* and inserts; then the 201 response
CreateEntrySave ==
  \E h \in DOMAIN handlers :
    /\ Awaits(h, "createEntry", "save")
    /\ LET entry == NewDocument(nextId, handlers[h].request.userId,
                                handlers[h].request.body)
       IN IF ValidationError(entry)
          THEN /\ handlers' = [handlers EXCEPT
                                 ![h] = Caught(@, "ValidationError")]
               /\ UNCHANGED <<db, nextId>>
          ELSE IF PreSaveError(entry)
          THEN /\ handlers' = [handlers EXCEPT ![h] = Caught(@, "Error")]
               /\ UNCHANGED <<db, nextId>>
          ELSE /\ handlers' = [handlers EXCEPT ![h] =
                    Reply([@ EXCEPT !.entry = entry], 201, entry)]
               /\ db' = Append(db, entry)
               /\ nextId' = nextId + 1
    /\ UNCHANGED received
    /\ UNCHANGED engineVars

\* PUT /timetable/:entryId: TimetableController.updateEntry up to findOne
UpdateEntry ==
  \E h \in DOMAIN handlers, r \in UpdateRequests :
    LET req == [op |-> "updateEntry", userId |-> r[1], entryId |-> r[2],
                body |-> r[3]]
    IN /\ Accepts(h)
       /\ handlers' = [handlers EXCEPT ![h] =
            IF r[1] = NoUser THEN Refused(req, 401)
            ELSE Started(req, "findOne")]
       /\ received' = received + 1
       /\ UNCHANGED <<db, nextId>>
       /\ UNCHANGED engineVars

\* updateEntry: entry = await Timetable.findOne({ _id: entryId, userId });
\* a body without times goes on to assign its keys and call save()
UpdateEntryFindOne ==
  \E h \in DOMAIN handlers :
    /\ Awaits(h, "updateEntry", "findOne")
    /\ LET req == handlers[h].request
           k == FindOne(db, req.entryId, req.userId)
       IN handlers' = [handlers EXCEPT ![h] =
            IF k = 0 THEN Reply(@, 404, NoData)
            ELSE IF UpdatesTime(req.body)
            THEN [@ EXCEPT !.pc = "find", !.entry = db[k]]
            ELSE [@ EXCEPT !.pc = "save",
                           !.entry = AssignKeys(db[k], req.body),
                           !.modified =
                             ModifiedPaths(db[k],
                                           AssignKeys(db[k], req.body))]]
    /\ UNCHANGED <<db, nextId>>
    /\ UNCHANGED received
    /\ UNCHANGED engineVars

\* updateEntry: existingEntries = await Timetable.find({...}), the overlap
\* loop, the assignment of the keys and the call of save()
UpdateEntryFind ==
  \E h \in DOMAIN handlers :
    /\ Awaits(h, "updateEntry", "find")
    /\ LET req == handlers[h].request
           entry == handlers[h].entry
       IN handlers' = [handlers EXCEPT ![h] =
            IF UpdateConflict(db, req.userId, req.entryId, entry, req.body)
            THEN Reply(@, 409, NoData)
            ELSE [@ EXCEPT !.pc = "save",
                           !.entry = AssignKeys(entry, req.body),
                           !.modified =
                             ModifiedPaths(entry,
                                           AssignKeys(entry, req.body))]]
    /\ UNCHANGED <<db, nextId>>
    /\ UNCHANGED received
    /\ UNCHANGED engineVars

\* updateEntry: await entry.save() validates the handler's copy of the
\* document, runs the pre-save middleware and sets the modified paths of the
\* stored document with the entry's _id; whether a save that finds no
\* document throws depends on the Mongoose build
UpdateEntrySave ==
  \E h \in DOMAIN handlers, throws \in BOOLEAN :
    /\ Awaits(h, "updateEntry", "save")
    /\ LET entry == handlers[h].entry
           modified == handlers[h].modified
           stored == { i \in 1..Len(db) : db[i].id = entry.id }
       IN IF ValidationError(entry)
          THEN /\ handlers' = [handlers EXCEPT
                                 ![h] = Caught(@, "ValidationError")]
               /\ db' = db
          ELSE IF PreSaveError(entry)
          THEN /\ handlers' = [handlers EXCEPT ![h] = Caught(@, "Error")]
               /\ db' = db
          ELSE IF stored = {} /\ throws
          THEN /\ handlers' = [handlers EXCEPT
                                 ![h] = Caught(@, "DocumentNotFoundError")]
               /\ db' = db
          ELSE /\ handlers' = [handlers EXCEPT ![h] = Reply(@, 200, entry)]
               /\ db' = [i \in 1..Len(db) |->
                           IF i \in stored
                           THEN SetModified(db[i], entry, modified)
                           ELSE db[i]]
    /\ UNCHANGED nextId
    /\ UNCHANGED received
    /\ UNCHANGED engineVars

\* DELETE /timetable/:entryId: TimetableController.deleteEntry up to its
\* database operation
DeleteEntry ==
  \E h \in DOMAIN handlers, r \in DeleteRequests :
    LET req == [op |-> "deleteEntry", userId |-> r[1], entryId |-> r[2]]
    IN /\ Accepts(h)
       /\ handlers' = [handlers EXCEPT ![h] =
            IF r[1] = NoUser THEN Refused(req, 401)
            ELSE Started(req, "delete")]
       /\ received' = received + 1
       /\ UNCHANGED <<db, nextId>>
       /\ UNCHANGED engineVars

\* deleteEntry: await Timetable.findOneAndDelete({ _id: entryId, userId })
DeleteEntryFindOneAndDelete ==
  \E h \in DOMAIN handlers :
    /\ Awaits(h, "deleteEntry", "delete")
    /\ LET req == handlers[h].request
       IN IF FindOne(db, req.entryId, req.userId) = 0
          THEN /\ handlers' = [handlers EXCEPT ![h] = Reply(@, 404, NoData)]
               /\ db' = db
          ELSE /\ handlers' = [handlers EXCEPT ![h] = Reply(@, 200, NoData)]
               /\ db' = SelectSeq(db, LAMBDA d :
                          ~(d.id = req.entryId /\ d.userId = req.userId))
    /\ UNCHANGED nextId
    /\ UNCHANGED received
    /\ UNCHANGED engineVars

\* GET /timetable/free-time: TimetableController.getFreeTimeSlots up to its
\* query
GetFreeTimeSlots ==
  \E h \in DOMAIN handlers, r \in FreeTimeRequests :
    LET req == [op |-> "getFreeTimeSlots", userId |-> r[1], query |-> r[2]]
    IN /\ Accepts(h)
       /\ handlers' = [handlers EXCEPT ![h] =
            IF r[1] = NoUser THEN Refused(req, 401)
            ELSE IF r[2].startDate = NoNumber \/ r[2].endDate = NoNumber
            THEN Refused(req, 400)
            ELSE Started(req, "find")]
       /\ received' = received + 1
       /\ UNCHANGED <<db, nextId>>
       /\ UNCHANGED engineVars

\* getFreeTimeSlots: entries = await Timetable.findByUserAndDateRange(...),
\* calculateFreeTimeSlots, the minDuration filter and the 200 response
GetFreeTimeSlotsFind ==
  \E h \in DOMAIN handlers :
    /\ Awaits(h, "getFreeTimeSlots", "find")
    /\ LET req == handlers[h].request
       IN \E entries \in findByUserAndDateRange(db, req.userId,
                           req.query.startDate, req.query.endDate) :
            LET slots == calculateFreeTimeSlots(entries, req.query.startDate,
                           req.query.endDate,
                           [start |-> OrDefault(req.query.workingHoursStart,
                                                8),
                            end |-> OrDefault(req.query.workingHoursEnd,
                                              22)])
                filteredSlots ==
                  FilterByMinDuration(slots,
                    OrDefault(req.query.minDuration, DefaultMinDuration))
            IN handlers' = [handlers EXCEPT ![h] =
                 Reply([@ EXCEPT !.entries = entries], 200,
                       [freeTimeSlots |-> filteredSlots,
                        totalSlots |-> Len(filteredSlots)])]
    /\ UNCHANGED <<db, nextId>>
    /\ UNCHANGED received
    /\ UNCHANGED engineVars

\* POST /timetable/common-free-time: TimetableController.findCommonFreeTime
\* up to the first query of its loop
FindCommonFreeTime ==
  \E h \in DOMAIN handlers, r \in CommonRequests :
    LET req == [op |-> "findCommonFreeTime", userId |-> r[1],
                body |-> r[2]]
    IN /\ Accepts(h)
       /\ handlers' = [handlers EXCEPT ![h] =
            IF r[1] = NoUser THEN Refused(req, 401)
            ELSE IF Len(r[2].userIds) = 0 THEN Refused(req, 400)
            ELSE IF r[2].startDate = NoNumber \/ r[2].endDate = NoNumber
            THEN Refused(req, 400)
            ELSE Started(req, "loop")]
       /\ received' = received + 1
       /\ UNCHANGED <<db, nextId>>
       /\ UNCHANGED engineVars

\* findCommonFreeTime: one iteration of the loop over allUserIds (the
\* awaited findByUserAndDateRange, calculateFreeTimeSlots, the push); after
\* the last one findCommonFreeSlots, the filter, the suggestions and the
\* 200 response
FindCommonFreeTimeFind ==
  \E h \in DOMAIN handlers :
    /\ Awaits(h, "findCommonFreeTime", "loop")
    /\ LET req == handlers[h].request
           uid == AllUserIds(req)[Len(handlers[h].allUserFreeSlots) + 1]
       IN \E entries \in findByUserAndDateRange(db, uid, req.body.startDate,
                                                req.body.endDate) :
            LET pushed ==
                  Append(handlers[h].allUserFreeSlots,
                         calculateFreeTimeSlots(entries, req.body.startDate,
                                                req.body.endDate,
                                                DefaultWorkingHours))
            IN handlers' = [handlers EXCEPT ![h] =
                 IF LoopDone(AllUserIds(req), pushed)
                 THEN Reply([@ EXCEPT !.allUserFreeSlots = pushed], 200,
                            CommonFreeTimeData(pushed, AllUserIds(req),
                                               req.body.minDuration))
                 ELSE [@ EXCEPT !.allUserFreeSlots = pushed]]
    /\ UNCHANGED <<db, nextId>>
    /\ UNCHANGED received
    /\ UNCHANGED engineVars

\* the awaited database operation of a handler rejects: its catch block
\* answers 500
DatabaseError ==
  \E h \in DOMAIN handlers :
    /\ handlers[h].pc \in {"find", "findOne", "save", "delete", "loop"}
    /\ handlers' = [handlers EXCEPT ![h] = Caught(@, "MongoError")]
    /\ UNCHANGED <<db, nextId>>
    /\ UNCHANGED received
    /\ UNCHANGED engineVars

\* the response has been sent; the slot takes the next request
Deliver ==
  \E h \in DOMAIN handlers :
    /\ handlers[h].pc = "replied"
    /\ handlers' = [handlers EXCEPT ![h] = Idle]
    /\ UNCHANGED <<db, nextId>>
    /\ UNCHANGED received
    /\ UNCHANGED engineVars

Next ==
  \/ CreateEntry
  \/ CreateEntryFind
  \/ CreateEntrySave
  \/ UpdateEntry
  \/ UpdateEntryFindOne
  \/ UpdateEntryFind
  \/ UpdateEntrySave
  \/ DeleteEntry
  \/ DeleteEntryFindOneAndDelete
  \/ GetFreeTimeSlots
  \/ GetFreeTimeSlotsFind
  \/ FindCommonFreeTime
  \/ FindCommonFreeTimeFind
  \/ DatabaseError
  \/ Deliver

Spec == Init /\ [][Next]_vars

SpecSeq == InitSeq /\ [][Next]_vars

(***************************************************************************)
(* Properties of the gap calculator                                        *)
(***************************************************************************)

\* index set of a sequence
Idx(seq) == 1..Len(seq)

\* the elements of a sequence
Range(seq) == { seq[i] : i \in Idx(seq) }

\* seq without its k-th element
RemoveAt(seq, k) == SubSeq(seq, 1, k - 1) \o SubSeq(seq, k + 1, Len(seq))

\* the instants at which the outer loop runs
IteratedDates ==
  { startDate + k * DayMin : k \in 0..((endDate - startDate) \div DayMin) }

\* a commitment as the data model defines it: start < end and dayOfWeek the
\* weekday of its start
ValidCommitment(e) ==
  e.startTime < e.endTime /\ e.dayOfWeek = getDay(e.startTime)

\* no two commitments of the array overlap
PairwiseDisjoint(entries) ==
  \A i, j \in Idx(entries) :
    i # j => \/ entries[i].endTime <= entries[j].startTime
             \/ entries[j].endTime <= entries[i].startTime

\* the query covers one day: the outer loop runs exactly once
OneDayQuery == startDate <= endDate /\ endDate < startDate + DayMin

WindowOpen(t) == setHours(t, workingHours.start)

WindowClose(t) == setHours(t, workingHours.end)

\* every commitment falls on the queried date, inside the working window
OnQueriedDayInWindow(entries) ==
  \A i \in Idx(entries) :
    /\ ValidCommitment(entries[i])
    /\ DateOf(entries[i].startTime) = DateOf(startDate)
    /\ WindowOpen(startDate) <= entries[i].startTime
    /\ entries[i].endTime <= WindowClose(startDate)

\* the maximal sub-intervals [a, b) of the queried day's window that no
\* commitment covers and that are at least 30 minutes long
MaximalGaps(entries) ==
  LET open == WindowOpen(startDate)
      close == WindowClose(startDate)
      points == {open, close}
                  \cup { entries[i].startTime : i \in Idx(entries) }
                  \cup { entries[i].endTime : i \in Idx(entries) }
      Covered(m) == \E i \in Idx(entries) :
                      entries[i].startTime <= m /\ m < entries[i].endTime
  IN { g \in points \X points :
         /\ open <= g[1] /\ g[1] < g[2] /\ g[2] <= close
         /\ \A i \in Idx(entries) :
              entries[i].endTime <= g[1] \/ g[2] <= entries[i].startTime
         /\ g[1] = open \/ Covered(g[1] - 1)
         /\ g[2] = close \/ Covered(g[2])
         /\ g[2] - g[1] >= 30 }

C1Pre ==
  /\ pc = "done"
  /\ OneDayQuery
  /\ workingHours.start < workingHours.end
  /\ OnQueriedDayInWindow(timetableEntries)
  /\ PairwiseDisjoint(timetableEntries)

\* C1: on a queried day whose commitments all fall on that date, do not
\* overlap and lie inside the working window, the returned slots are exactly
\* the maximal uncovered sub-intervals of the window of at least 30 minutes,
\* in ascending order, each with duration end - start.
C1_ExactGaps ==
  C1Pre =>
    /\ { <<freeSlots[i].startTime, freeSlots[i].endTime>> :
           i \in Idx(freeSlots) } = MaximalGaps(timetableEntries)
    /\ Len(freeSlots) = Cardinality(MaximalGaps(timetableEntries))
    /\ \A i \in Idx(freeSlots) :
         freeSlots[i].duration
           = freeSlots[i].endTime - freeSlots[i].startTime
    /\ \A i, j \in Idx(freeSlots) :
         i < j => freeSlots[i].endTime <= freeSlots[j].startTime

\* scenario 1: one commitment 09:00-10:30 in 08:00-22:00 leaves 08:00-09:00
\* (60 minutes) and 10:30-22:00 (690 minutes)
C1_Witness ==
  /\ C1Pre
  /\ timetableEntries = <<Entry(0, 540, 630, FALSE)>>
  /\ workingHours = DefaultWorkingHours
  /\ Len(freeSlots) = 2
  /\ freeSlots[1].startTime = At(0, 480) /\ freeSlots[1].endTime = At(0, 540)
  /\ freeSlots[1].duration = 60
  /\ freeSlots[2].startTime = At(0, 630) /\ freeSlots[2].endTime = At(0, 1320)
  /\ freeSlots[2].duration = 690

\* the commitment lies inside the working window of its own date
InOwnWindow(e) ==
  /\ WindowOpen(e.startTime) <= e.startTime
  /\ e.endTime <= WindowClose(e.startTime)

\* C2: for valid commitments and any date range, also one longer than a
\* week, the returned slots are sorted by start time and no two of them
\* overlap (checked here for commitments that do not overlap one another
\* and lie inside the working window).
C2_SortedDisjoint ==
  (/\ pc = "done"
   /\ workingHours.start < workingHours.end
   /\ \A i \in Idx(timetableEntries) :
        ValidCommitment(timetableEntries[i]) /\ InOwnWindow(timetableEntries[i])
   /\ PairwiseDisjoint(timetableEntries))
  => \A i, j \in Idx(freeSlots) :
       i < j => /\ freeSlots[i].startTime <= freeSlots[j].startTime
                /\ freeSlots[i].endTime <= freeSlots[j].startTime

\* C8: every returned slot lies inside the working window of one of the
\* dates the range covers, wherever the commitments lie relative to the
\* window.
C8_InsideWindow ==
  (/\ pc = "done"
   /\ workingHours.start < workingHours.end
   /\ \A i \in Idx(timetableEntries) : ValidCommitment(timetableEntries[i]))
  => \A i \in Idx(freeSlots) :
       \E t \in IteratedDates :
         /\ WindowOpen(t) <= freeSlots[i].startTime
         /\ freeSlots[i].endTime <= WindowClose(t)

\* C9: a non-recurring commitment that the date-range query returns (its
\* start lies in the range) leaves every date of the range other than its
\* own with the free slots that date has without the commitment (checked
\* here for commitments inside the working window).
C9_OneOccurrence ==
  (pc = "done" /\ workingHours.start < workingHours.end) =>
    \A k \in Idx(timetableEntries) :
      (/\ ~timetableEntries[k].isRecurring
       /\ ValidCommitment(timetableEntries[k])
       /\ InOwnWindow(timetableEntries[k])
       /\ startDate <= timetableEntries[k].startTime
       /\ timetableEntries[k].startTime <= endDate)
      => \A t \in IteratedDates :
           DateOf(t) # DateOf(timetableEntries[k].startTime)
           => DaySlots(timetableEntries, t, workingHours)
                = DaySlots(RemoveAt(timetableEntries, k), t, workingHours)

\* C10: the occupied interval the sweep reads for a recurring commitment on
\* a date after its base date lies on that date, at the base time of day
\* and with the base duration.
C10_OccurrenceShifted ==
  pc = "done" =>
    \A i \in Idx(occupied) :
      (/\ occupied[i].entry.isRecurring
       /\ ValidCommitment(occupied[i].entry)
       /\ occupied[i].date > DateOf(occupied[i].entry.startTime))
      => /\ DateOf(occupied[i].startTime) = occupied[i].date
         /\ DateOf(occupied[i].endTime) = occupied[i].date
         /\ TimeOfDay(occupied[i].startTime)
              = TimeOfDay(occupied[i].entry.startTime)
         /\ occupied[i].endTime - occupied[i].startTime
              = occupied[i].entry.endTime - occupied[i].entry.startTime

\* the spans of the returned slots that start on calendar date d, taken
\* relative to midnight of d
SlotsRelativeTo(d) ==
  { <<freeSlots[i].startTime - d * DayMin, freeSlots[i].endTime - d * DayMin>> :
      i \in { j \in Idx(freeSlots) : DateOf(freeSlots[j].startTime) = d } }

\* C11: a weekly commitment with interval 1 and no endDate whose base
\* occurrence is the Monday that opens a four-week range is read exactly 4
\* times, once on each Monday at the base time of day, and each of the four
\* Mondays has the same free intervals relative to its own date.
C11_FourOccurrences ==
  (/\ pc = "done"
   /\ Len(timetableEntries) = 1
   /\ timetableEntries[1].isRecurring
   /\ timetableEntries[1].recurringPattern = Weekly
   /\ ValidCommitment(timetableEntries[1])
   /\ InOwnWindow(timetableEntries[1])
   /\ startDate = At(DateOf(timetableEntries[1].startTime), 0)
   /\ endDate = startDate + 28 * DayMin - 1)
  => /\ Len(occupied) = 4
     /\ \A k \in 0..3 :
          \E i \in Idx(occupied) :
            /\ occupied[i].date = DateOf(startDate) + 7 * k
            /\ occupied[i].startTime
                 = timetableEntries[1].startTime + 7 * k * DayMin
            /\ occupied[i].endTime
                 = timetableEntries[1].endTime + 7 * k * DayMin
     /\ \A k \in 1..3 :
          SlotsRelativeTo(DateOf(startDate) + 7 * k)
            = SlotsRelativeTo(DateOf(startDate))

\* C12: a weekly commitment whose recurrence has an endDate has no
\* occurrence on a date of the range after that endDate: the slots the sweep
\* computes for such a date are those it computes without the commitment.
C12_NoneAfterEndDate ==
  pc = "done" =>
    \A k \in Idx(timetableEntries) :
      (/\ timetableEntries[k].isRecurring
       /\ timetableEntries[k].recurringPattern.frequency = "weekly"
       /\ timetableEntries[k].recurringPattern.endDate # NoNumber
       /\ ValidCommitment(timetableEntries[k])
       /\ InOwnWindow(timetableEntries[k])
       /\ PairwiseDisjoint(timetableEntries))
      => \A t \in IteratedDates :
           t > timetableEntries[k].recurringPattern.endDate
           => DaySlots(timetableEntries, t, workingHours)
                = DaySlots(RemoveAt(timetableEntries, k), t, workingHours)

\* every commitment is valid and lies, start and end, on the queried date
OnQueriedDay(entries) ==
  \A i \in Idx(entries) :
    /\ ValidCommitment(entries[i])
    /\ DateOf(entries[i].startTime) = DateOf(startDate)
    /\ DateOf(entries[i].endTime - 1) = DateOf(startDate)

\* C22: on a queried day whose commitments may overlap, nest or lie before
\* the window's open time, no returned slot intersects any of the day's
\* commitments (the cursor never moves back over one).
C22_NoSlotOverOccupied ==
  (/\ pc = "done"
   /\ OneDayQuery
   /\ workingHours.start < workingHours.end
   /\ OnQueriedDay(timetableEntries))
  => \A i \in Idx(freeSlots), k \in Idx(timetableEntries) :
       \/ freeSlots[i].endTime <= timetableEntries[k].startTime
       \/ timetableEntries[k].endTime <= freeSlots[i].startTime

\* C23: the returned slots do not depend on the order in which the
\* commitments are supplied, also when two of them start at the same time
\* and end at different times; checked for the reversed array.
C23_OrderIndependent ==
  (/\ pc = "done"
   /\ OneDayQuery
   /\ workingHours.start < workingHours.end
   /\ OnQueriedDayInWindow(timetableEntries))
  => calculateFreeTimeSlots(Reverse(timetableEntries), startDate, endDate,
                            workingHours) = freeSlots

(***************************************************************************)
(* Properties of the multi-party intersector                               *)
(***************************************************************************)

\* a participant's slot array as the data model hands it on: every slot has
\* start < end and the slots are in ascending order without overlap
SortedDisjointSlots(q) ==
  /\ \A i \in Idx(q) : q[i].startTime < q[i].endTime
  /\ \A i, j \in Idx(q) : i < j => q[i].endTime <= q[j].startTime

\* every slot of the array lies on one calendar date and carries the weekday
\* of that date
OnOneDate(q) ==
  \A i \in Idx(q) : /\ DateOf(q[i].endTime - 1) = DateOf(q[i].startTime)
                    /\ q[i].dayOfWeek = getDay(q[i].startTime)

\* the spans [start, end) of a slot array
Spans(q) == { <<q[i].startTime, q[i].endTime>> : i \in Idx(q) }

\* the intervals of a slot array, in order: start, end and duration
Intervals(q) ==
  [i \in Idx(q) |-> <<q[i].startTime, q[i].endTime, q[i].duration>>]

\* the orders in which three participants can be listed
Orders3 == { o \in [1..3 -> 1..3] : \A i, j \in 1..3 : i # j => o[i] # o[j] }

\* C4: for three participants the result is the same for every order of the
\* participants and for every order of the pairwise fold: the same set of
\* spans for any three slot arrays, the same sequence of intervals when each
\* participant's slots are sorted and disjoint, and the same array, weekday
\* fields included, when moreover every slot lies on one date.
C4_OrderIrrelevant ==
  (pc = "done" /\ Len(userFreeSlots) = 3) =>
    \A o \in Orders3 :
      LET A == userFreeSlots[o[1]]
          B == userFreeSlots[o[2]]
          C == userFreeSlots[o[3]]
          left == findCommonFreeSlots(<<A, B, C>>)
          right == intersectFreeSlots(A, intersectFreeSlots(B, C))
      IN /\ Spans(left) = Spans(commonSlots)
         /\ Spans(right) = Spans(commonSlots)
         /\ (\A i \in 1..3 : SortedDisjointSlots(userFreeSlots[i]))
            => /\ Intervals(left) = Intervals(commonSlots)
               /\ Intervals(right) = Intervals(commonSlots)
         /\ (\A i \in 1..3 : /\ SortedDisjointSlots(userFreeSlots[i])
                             /\ OnOneDate(userFreeSlots[i]))
            => /\ left = commonSlots
               /\ right = commonSlots

\* three different sorted participants with a common slot
C4_Witness ==
  /\ pc = "done"
  /\ Len(userFreeSlots) = 3
  /\ \A i \in 1..3 : SortedDisjointSlots(userFreeSlots[i])
  /\ userFreeSlots[1] # userFreeSlots[2]
  /\ userFreeSlots[2] # userFreeSlots[3]
  /\ userFreeSlots[1] # userFreeSlots[3]
  /\ Len(userFreeSlots[3]) = 2
  /\ commonSlots # <<>>

\* C5: zero participants give the empty array, one participant gives that
\* participant's array as it is.
C5_Identity ==
  pc = "done" =>
    /\ Len(userFreeSlots) = 0 => commonSlots = <<>>
    /\ Len(userFreeSlots) = 1 => commonSlots = userFreeSlots[1]

\* one participant whose array holds a slot shorter than 30 minutes, in
\* descending order
C5_Witness ==
  /\ pc = "done"
  /\ userFreeSlots = << <<Slot(0, 600, 840), Slot(0, 480, 500)>> >>
  /\ commonSlots = <<Slot(0, 600, 840), Slot(0, 480, 500)>>

\* the spans [max start, min end) of the pairs (A[i], B[j]), i outer, j
\* inner
PairSpans(A, B) ==
  [k \in 1..(Len(A) * Len(B)) |->
     LET i == ((k - 1) \div Len(B)) + 1
         j == ((k - 1) % Len(B)) + 1
     IN <<IF A[i].startTime >= B[j].startTime
            THEN A[i].startTime ELSE B[j].startTime,
          IF A[i].endTime <= B[j].endTime
            THEN A[i].endTime ELSE B[j].endTime>>]

\* C6: for two participants the result holds, pair by pair, the span
\* [max(a.start, b.start), min(a.end, b.end)) exactly when it is non-empty
\* and at least 30 minutes long, and nothing else.
C6_PairwiseSpans ==
  (pc = "done" /\ Len(userFreeSlots) = 2) =>
    LET kept == SelectSeq(PairSpans(userFreeSlots[1], userFreeSlots[2]),
                          LAMBDA g : g[1] < g[2] /\ g[2] - g[1] >= 30)
    IN /\ Len(commonSlots) = Len(kept)
       /\ \A k \in Idx(commonSlots) :
            /\ commonSlots[k].startTime = kept[k][1]
            /\ commonSlots[k].endTime = kept[k][2]
            /\ commonSlots[k].duration = kept[k][2] - kept[k][1]

\* scenario 2: 08:00-12:00 against 10:00-14:00 gives 10:00-12:00 (120
\* minutes), and 08:00-08:20 against 08:10-08:25 (10 minutes) gives nothing
C6_Witness ==
  /\ pc = "done"
  /\ userFreeSlots = << <<Slot(0, 480, 500), Slot(0, 480, 720)>>,
                        <<Slot(0, 490, 505), Slot(0, 600, 840)>> >>
  /\ Len(commonSlots) = 1
  /\ commonSlots[1].startTime = At(0, 600)
  /\ commonSlots[1].endTime = At(0, 720)
  /\ commonSlots[1].duration = 120

\* C7: when every participant's slots are sorted and disjoint, the result
\* is in ascending order of start time, ties in ascending order of end time.
C7_Ascending ==
  (/\ pc = "done"
   /\ \A i \in Idx(userFreeSlots) : SortedDisjointSlots(userFreeSlots[i]))
  => \A k, l \in Idx(commonSlots) :
       k < l => \/ commonSlots[k].startTime < commonSlots[l].startTime
                \/ /\ commonSlots[k].startTime = commonSlots[l].startTime
                   /\ commonSlots[k].endTime <= commonSlots[l].endTime

\* two or more sorted participants with two common slots
C7_Witness ==
  /\ pc = "done"
  /\ Len(userFreeSlots) >= 2
  /\ \A i \in Idx(userFreeSlots) : SortedDisjointSlots(userFreeSlots[i])
  /\ Len(commonSlots) >= 2

(***************************************************************************)
(* Properties of the free-time requests                                    *)
(***************************************************************************)

\* the minimum duration in force for a request: its minDuration, or 30
InForce(minDuration) == IF minDuration = NoNumber THEN 30 ELSE minDuration

\* every slot has start < end, the duration end - start, and lasts at least
\* m minutes
AllAtLeast(slots, m) ==
  \A i \in Idx(slots) :
    /\ slots[i].startTime < slots[i].endTime
    /\ slots[i].duration = slots[i].endTime - slots[i].startTime
    /\ slots[i].duration >= m

\* handler h has answered a request of operation op with status
Answered(h, op, status) ==
  /\ handlers[h].pc = "replied"
  /\ handlers[h].request.op = op
  /\ handlers[h].response.status = status

\* the gaps computed for the free-time request of handler h from the rows
\* its query returned
RawFreeSlots(h) ==
  calculateFreeTimeSlots(
    handlers[h].entries,
    handlers[h].request.query.startDate, handlers[h].request.query.endDate,
    [start |-> OrDefault(handlers[h].request.query.workingHoursStart, 8),
     end |-> OrDefault(handlers[h].request.query.workingHoursEnd, 22)])

\* the overlaps computed for the common-free-time request of handler h from
\* the slot arrays of its participants
RawCommonSlots(h) == findCommonFreeSlots(handlers[h].allUserFreeSlots)

\* C3: every free interval of a free-time response and every common
\* interval of a common-free-time response has start < end and lasts at
\* least the minDuration in force (30 minutes by default), its duration
\* being end - start; each returned interval is one of the computed gaps or
\* overlaps unchanged, so shorter ones are dropped, never clamped or padded.
C3_MinDuration ==
  \A h \in DOMAIN handlers :
    /\ Answered(h, "getFreeTimeSlots", 200)
       => /\ AllAtLeast(handlers[h].response.data.freeTimeSlots,
                        InForce(handlers[h].request.query.minDuration))
          /\ Range(handlers[h].response.data.freeTimeSlots) =
               { slot \in Range(RawFreeSlots(h)) :
                   slot.duration
                     >= InForce(handlers[h].request.query.minDuration) }
    /\ Answered(h, "findCommonFreeTime", 200)
       => /\ AllAtLeast(handlers[h].response.data.commonFreeTime,
                        InForce(handlers[h].request.body.minDuration))
          /\ Range(handlers[h].response.data.commonFreeTime) =
               { slot \in Range(RawCommonSlots(h)) :
                   slot.duration
                     >= InForce(handlers[h].request.body.minDuration) }

\* a free-time response with minDuration 60 that holds slots and from which
\* a gap of 30 to 59 minutes has been dropped
C3_Witness ==
  \E h \in DOMAIN handlers :
    /\ Answered(h, "getFreeTimeSlots", 200)
    /\ handlers[h].request.query.minDuration = 60
    /\ handlers[h].response.data.freeTimeSlots # <<>>
    /\ \E i \in Idx(RawFreeSlots(h)) :
         RawFreeSlots(h)[i].duration >= 30 /\ RawFreeSlots(h)[i].duration < 60

\* the maximal sub-intervals [a, b) of the window [open, close) that no
\* commitment covers and that last at least m minutes
GapsOfAtLeast(entries, open, close, m) ==
  LET points == {open, close}
                  \cup { entries[i].startTime : i \in Idx(entries) }
                  \cup { entries[i].endTime : i \in Idx(entries) }
      Covered(t) == \E i \in Idx(entries) :
                      entries[i].startTime <= t /\ t < entries[i].endTime
  IN { g \in points \X points :
         /\ open <= g[1] /\ g[1] < g[2] /\ g[2] <= close
         /\ \A i \in Idx(entries) :
              entries[i].endTime <= g[1] \/ g[2] <= entries[i].startTime
         /\ g[1] = open \/ Covered(g[1] - 1)
         /\ g[2] = close \/ Covered(g[2])
         /\ g[2] - g[1] >= m }

\* the stored commitments that the query of the free-time request of
\* handler h returned
RequestEntries(h) == handlers[h].entries

\* the working window of the free-time request of handler h, on its start
\* date
RequestOpen(h) ==
  setHours(handlers[h].request.query.startDate,
           OrDefault(handlers[h].request.query.workingHoursStart, 8))

RequestClose(h) ==
  setHours(handlers[h].request.query.startDate,
           OrDefault(handlers[h].request.query.workingHoursEnd, 22))

\* a successful free-time request over one day whose commitments all fall
\* on that date, inside the working window, and do not overlap
C24_Pre(h) ==
  /\ Answered(h, "getFreeTimeSlots", 200)
  /\ handlers[h].request.query.startDate
       <= handlers[h].request.query.endDate
  /\ handlers[h].request.query.endDate
       < handlers[h].request.query.startDate + DayMin
  /\ RequestOpen(h) < RequestClose(h)
  /\ PairwiseDisjoint(RequestEntries(h))
  /\ \A i \in Idx(RequestEntries(h)) :
       /\ ValidCommitment(RequestEntries(h)[i])
       /\ DateOf(RequestEntries(h)[i].startTime)
            = DateOf(handlers[h].request.query.startDate)
       /\ RequestOpen(h) <= RequestEntries(h)[i].startTime
       /\ RequestEntries(h)[i].endTime <= RequestClose(h)

\* C24: for every configured minimum duration m, values below 30 minutes
\* included, the free-time request returns every gap of the working window
\* (between the cursor and the next occupied interval, and the final gap up
\* to window close) that lasts at least m minutes; with minDuration = 15 a
\* 20-minute gap is returned.
C24_EveryGapOfMinDuration ==
  \A h \in DOMAIN handlers :
    C24_Pre(h) =>
      GapsOfAtLeast(RequestEntries(h), RequestOpen(h), RequestClose(h),
                    InForce(handlers[h].request.query.minDuration))
        \subseteq Spans(handlers[h].response.data.freeTimeSlots)

\* C26: in a group-availability request for N participants the multi-party
\* intersection is started only after the free slots of all N participants
\* have been computed, and it receives exactly N slot sequences, one per
\* participant in participant-list order; a failure while computing any
\* participant's slots means no intersection result is returned.
C26_JoinBarrier ==
  \A h \in DOMAIN handlers :
    /\ Answered(h, "findCommonFreeTime", 200) =>
         /\ Len(handlers[h].allUserFreeSlots)
              = Len(handlers[h].request.body.userIds) + 1
         /\ \A k \in Idx(handlers[h].allUserFreeSlots) :
              \E entries \in
                  findByUserAndDateRange(
                    db,
                    IF k = 1 THEN handlers[h].request.userId
                             ELSE handlers[h].request.body.userIds[k - 1],
                    handlers[h].request.body.startDate,
                    handlers[h].request.body.endDate) :
                handlers[h].allUserFreeSlots[k] =
                  calculateFreeTimeSlots(
                    entries, handlers[h].request.body.startDate,
                    handlers[h].request.body.endDate, DefaultWorkingHours)
         /\ handlers[h].response.data.participantCount
              = Len(handlers[h].request.body.userIds) + 1
         /\ handlers[h].response.data.commonFreeTime =
              FilterByMinDuration(
                findCommonFreeSlots(handlers[h].allUserFreeSlots),
                InForce(handlers[h].request.body.minDuration))
    /\ (handlers[h].pc = "replied"
        /\ handlers[h].request.op = "findCommonFreeTime"
        /\ handlers[h].response.status # 200)
       => handlers[h].response.data = NoData
    /\ Awaits(h, "findCommonFreeTime", "loop") =>
         /\ handlers[h].response = NoResponse
         /\ Len(handlers[h].allUserFreeSlots)
              <= Len(handlers[h].request.body.userIds)

\* a request for three participants answered 200 with a common interval,
\* the first two participants having different free slots
C26_Witness ==
  \E h \in DOMAIN handlers :
    /\ Answered(h, "findCommonFreeTime", 200)
    /\ Len(handlers[h].allUserFreeSlots) = 3
    /\ handlers[h].allUserFreeSlots[1] # handlers[h].allUserFreeSlots[2]
    /\ handlers[h].response.data.commonFreeTime # <<>>

\* C27: after any sequential series of completed createEntry, updateEntry
\* and deleteEntry requests, no two stored entries of the same user with the
\* same dayOfWeek have overlapping [startTime, endTime) intervals, also
\* after updates that change only dayOfWeek (to 0, Sunday, too) and updates
\* carrying arbitrary body fields.
C27_NoOverlapPerUserAndDay ==
  \A i, j \in Idx(db) :
    (i # j /\ db[i].userId = db[j].userId
           /\ db[i].dayOfWeek = db[j].dayOfWeek)
      => \/ db[i].endTime <= db[j].startTime
         \/ db[j].endTime <= db[i].startTime

\* C28: when two createEntry requests of the same user for overlapping times
\* on the same dayOfWeek run concurrently, their database reads and writes
\* interleaved, at most one of them is stored and the other is answered
\* with a 409 conflict.
C28_OneOfTwoStored ==
  \A g, h \in DOMAIN handlers :
    (/\ g # h
     /\ Answered(g, "createEntry", 201)
     /\ handlers[h].pc = "replied"
     /\ handlers[h].request.op = "createEntry"
     /\ handlers[h].error = "none"
     /\ handlers[g].request.userId = handlers[h].request.userId
     /\ handlers[g].request.body.dayOfWeek
          = handlers[h].request.body.dayOfWeek
     /\ handlers[g].request.body.startTime < handlers[h].request.body.endTime
     /\ handlers[h].request.body.startTime
          < handlers[g].request.body.endTime)
      => handlers[h].response.status = 409

\* C29: updateEntry and deleteEntry issued by user u change only entries
\* owned by u, leave every other user's entries unchanged, and never change
\* the owner of an entry: an entry stored before and after the request has
\* the same userId.
C29_OwnerOnly ==
  [][\A h \in DOMAIN handlers :
       (/\ handlers[h].pc \in {"save", "delete"}
        /\ handlers[h].request.op \in {"updateEntry", "deleteEntry"}
        /\ handlers'[h].pc = "replied")
       => /\ \A i \in Idx(db) :
               db[i].userId # handlers[h].request.userId
                 => \E j \in Idx(db') : db'[j] = db[i]
          /\ \A i \in Idx(db), j \in Idx(db') :
               db'[j].id = db[i].id => db'[j].userId = db[i].userId]_vars

(***************************************************************************)
(* Properties of occursOnDate                                              *)
(***************************************************************************)

\* a recurrence with interval <= 0 or a frequency outside the enum
Malformed(pattern) ==
  \/ pattern.interval <= 0
  \/ pattern.frequency \notin {"weekly", "biweekly", "monthly"}

\* C13: checking a recurrence with interval <= 0 or an unknown frequency
\* fails with an error; it never returns a result such as "no occurrence".
\* Stated for the calls that reach the switch on the frequency.
C13_InvalidRecurrence ==
  (/\ pc = "done"
   /\ occurs.called
   /\ timetableEntries[1].isRecurring
   /\ timetableEntries[1].recurringPattern # NoPattern
   /\ Malformed(timetableEntries[1].recurringPattern)
   /\ getDay(date) = timetableEntries[1].dayOfWeek)
  => occurs.threw

\* the days of one step of a recurrence
StepDays(pattern) ==
  CASE pattern.frequency = "weekly" -> 7 * pattern.interval
    [] pattern.frequency = "biweekly" -> 14 * pattern.interval
    [] pattern.frequency = "monthly" -> 28 * pattern.interval

\* C25: for a recurring entry with base start S and a well-formed pattern,
\* occursOnDate(D) is true exactly when D falls on S's weekday, not before
\* S's calendar date, not after endDate, a whole number of steps after S's
\* calendar date; the times of day of S and D play no part.
C25_OccursExactly ==
  (/\ pc = "done"
   /\ occurs.called
   /\ timetableEntries[1].isRecurring
   /\ timetableEntries[1].recurringPattern # NoPattern
   /\ ~Malformed(timetableEntries[1].recurringPattern)
   /\ ValidCommitment(timetableEntries[1]))
  => LET doc == timetableEntries[1]
         pattern == doc.recurringPattern
         days == DateOf(date) - DateOf(doc.startTime)
     IN occurs.value
          <=> /\ getDay(date) = getDay(doc.startTime)
              /\ days >= 0
              /\ pattern.endDate = NoNumber
                 \/ DateOf(date) <= DateOf(pattern.endDate)
              /\ days % StepDays(pattern) = 0

(***************************************************************************)
(* Error handling and frame conditions                                     *)
(***************************************************************************)

\* handler h has answered a free-time or common-free-time request that
\* carries a user, a range and, for common free time, participants
RangeRequest(h) ==
  /\ handlers[h].pc = "replied"
  /\ handlers[h].request.userId # NoUser
  /\ \/ /\ handlers[h].request.op = "getFreeTimeSlots"
        /\ handlers[h].request.query.startDate # NoNumber
        /\ handlers[h].request.query.endDate # NoNumber
     \/ /\ handlers[h].request.op = "findCommonFreeTime"
        /\ handlers[h].request.body.userIds # <<>>
        /\ handlers[h].request.body.startDate # NoNumber
        /\ handlers[h].request.body.endDate # NoNumber

\* the range of the request of handler h
RequestRange(h) ==
  IF handlers[h].request.op = "getFreeTimeSlots"
  THEN <<handlers[h].request.query.startDate,
         handlers[h].request.query.endDate>>
  ELSE <<handlers[h].request.body.startDate,
         handlers[h].request.body.endDate>>

\* C14: a free-time or common-free-time request with rangeStart >= rangeEnd
\* is answered with an error, never with a list of free intervals.
C14_InvalidRange ==
  \A h \in DOMAIN handlers :
    (RangeRequest(h) /\ RequestRange(h)[1] >= RequestRange(h)[2])
    => handlers[h].response.status # 200

\* C15: createEntry and updateEntry reject an entry with start >= end, so
\* after any create and update requests every stored timetable entry has
\* startTime < endTime.
C15_StoredIntervalsValid ==
  /\ \A i \in Idx(db) : db[i].startTime < db[i].endTime
  /\ \A h \in DOMAIN handlers :
       /\ (/\ handlers[h].pc = "replied"
           /\ handlers[h].request.op = "createEntry"
           /\ handlers[h].request.body.startTime
                >= handlers[h].request.body.endTime)
          => handlers[h].response.status \notin {200, 201}
       /\ Answered(h, "updateEntry", 200)
          => handlers[h].response.data.startTime
               < handlers[h].response.data.endTime

\* C16: a common-free-time request with an empty participant list is
\* answered with an empty result, not with an error.
C16_EmptyParticipants ==
  \A h \in DOMAIN handlers :
    (/\ handlers[h].pc = "replied"
     /\ handlers[h].request.op = "findCommonFreeTime"
     /\ handlers[h].request.userId # NoUser
     /\ handlers[h].request.body.userIds = <<>>)
    => /\ handlers[h].response.status = 200
       /\ handlers[h].response.data.commonFreeTime = <<>>

\* C17: a call of calculateFreeTimeSlots leaves the caller's commitment
\* array with the same elements in the same order, and a call of
\* findCommonFreeSlots leaves every per-person slot array unchanged.
C17_InputsUnchanged ==
  [][/\ timetableEntries' = timetableEntries
     /\ userFreeSlots' = userFreeSlots]_vars

\* C18: every stored commitment's dayOfWeek is in 0..6 and is the weekday
\* of its startTime.
C18_DayOfWeekConsistent ==
  \A i \in Idx(db) : /\ db[i].dayOfWeek \in 0..6
                     /\ db[i].dayOfWeek = getDay(db[i].startTime)

(***************************************************************************)
(* Properties of the suggestion ranker                                     *)
(***************************************************************************)

\* the candidate made from each common interval handed to the ranker
Candidates ==
  { Suggestion(commonSlots[i], rankArgs.participants,
               rankArgs.maxMeetingLength) : i \in Idx(commonSlots) }

\* C19: the ranker returns at most maxSuggestions suggestions, as many as
\* there are candidates up to that limit; they are in descending order of
\* confidence with ties in ascending order of start, and no candidate left
\* out ranks before one that is returned.
C19_BestFirst ==
  pc = "done" =>
    /\ Len(suggestions) = Min(rankArgs.maxSuggestions, Len(commonSlots))
    /\ Range(suggestions) \subseteq Candidates
    /\ \A i, j \in Idx(suggestions) :
         i < j => \/ suggestions[i].confidence > suggestions[j].confidence
                  \/ /\ suggestions[i].confidence = suggestions[j].confidence
                     /\ suggestions[i].startTime < suggestions[j].startTime
    /\ \A c \in Candidates \ Range(suggestions) :
         \A i \in Idx(suggestions) :
           \/ suggestions[i].confidence > c.confidence
           \/ /\ suggestions[i].confidence = c.confidence
              /\ suggestions[i].startTime < c.startTime

\* maxSuggestions = 2 with 5 common intervals of varying length, two of
\* which tie for the second place: exactly 2 suggestions are returned
C19_Witness ==
  /\ pc = "done"
  /\ rankArgs.maxSuggestions = 2
  /\ Len(commonSlots) = 5
  /\ Len(suggestions) = 2
  /\ \E c \in Candidates \ Range(suggestions) :
       c.confidence = suggestions[2].confidence

\* C20: every suggestion starts at the start of a common interval handed to
\* the ranker, ends inside that interval and lasts at most maxMeetingLength;
\* an interval longer than maxMeetingLength gives the suggestion
\* [start, start + maxMeetingLength).
C20_ClippedToMaxLength ==
  pc = "done" =>
    \A i \in Idx(suggestions) :
      \E k \in Idx(commonSlots) :
        /\ suggestions[i].startTime = commonSlots[k].startTime
        /\ suggestions[i].startTime < suggestions[i].endTime
        /\ suggestions[i].endTime <= commonSlots[k].endTime
        /\ suggestions[i].duration
             = suggestions[i].endTime - suggestions[i].startTime
        /\ suggestions[i].duration <= rankArgs.maxMeetingLength
        /\ commonSlots[k].duration > rankArgs.maxMeetingLength
           => suggestions[i].endTime
                = suggestions[i].startTime + rankArgs.maxMeetingLength
        /\ commonSlots[k].duration <= rankArgs.maxMeetingLength
           => suggestions[i].endTime = commonSlots[k].endTime

\* a suggestion made from an interval longer than maxMeetingLength
C20_Witness ==
  /\ pc = "done"
  /\ \E i \in Idx(suggestions), k \in Idx(commonSlots) :
       /\ suggestions[i].startTime = commonSlots[k].startTime
       /\ commonSlots[k].duration > rankArgs.maxMeetingLength
       /\ suggestions[i].duration = rankArgs.maxMeetingLength

\* the common interval a suggestion was made from
SourceOf(suggestion) ==
  CHOOSE k \in Idx(commonSlots) :
    commonSlots[k].startTime = suggestion.startTime

\* C21: the confidence of every suggestion lies in [0, 1] (0..100
\* hundredths), and of two suggestions whose intervals start in the same
\* time-of-day band the one made from the longer interval has at least the
\* confidence of the other.
C21_ConfidenceRange ==
  pc = "done" =>
    /\ \A i \in Idx(suggestions) :
         suggestions[i].confidence >= 0 /\ suggestions[i].confidence <= 100
    /\ \A i, j \in Idx(suggestions) :
         (/\ BandScore(commonSlots[SourceOf(suggestions[i])])
               = BandScore(commonSlots[SourceOf(suggestions[j])])
          /\ commonSlots[SourceOf(suggestions[i])].duration
               <= commonSlots[SourceOf(suggestions[j])].duration)
         => suggestions[i].confidence <= suggestions[j].confidence

\* two suggestions of the same band, one from an interval that fills
\* maxMeetingLength, the other from a shorter interval and less confident
C21_Witness ==
  /\ pc = "done"
  /\ \E i, j \in Idx(suggestions) :
       /\ BandScore(commonSlots[SourceOf(suggestions[i])])
            = BandScore(commonSlots[SourceOf(suggestions[j])])
       /\ commonSlots[SourceOf(suggestions[i])].duration
            < commonSlots[SourceOf(suggestions[j])].duration
       /\ commonSlots[SourceOf(suggestions[j])].duration
            >= rankArgs.maxMeetingLength
       /\ suggestions[i].confidence < suggestions[j].confidence

(***************************************************************************)
(* Containment of the common intervals                                     *)
(***************************************************************************)

\* C30: for two or more participants every returned common interval lies
\* inside some free slot of each participant.
C30_InsideEveryParticipant ==
  (pc = "done" /\ Len(userFreeSlots) >= 2) =>
    \A i \in Idx(commonSlots) :
      \A p \in Idx(userFreeSlots) :
        \E k \in Idx(userFreeSlots[p]) :
          /\ userFreeSlots[p][k].startTime <= commonSlots[i].startTime
          /\ commonSlots[i].endTime <= userFreeSlots[p][k].endTime

\* three participants with a common interval shorter than each of the
\* slots it was cut from
C30_Witness ==
  /\ pc = "done"
  /\ Len(userFreeSlots) = 3
  /\ commonSlots # <<>>
  /\ \A p \in Idx(userFreeSlots) :
       \A k \in Idx(userFreeSlots[p]) :
         userFreeSlots[p][k].duration > commonSlots[1].duration

====
